---- MODULE Spec2Model ----
(***************************************************************************)
(* Model of the harvest performed by src/app.py: one run of the Streamlit  *)
(* script after the "Run" button is pressed (lines 157-209), the page      *)
(* fetcher fetch_page (lines 117-128), the offset plan (line 181), the     *)
(* per-offset retry loop (lines 183-197), the progress report (lines       *)
(* 199-201) and the construction of the data frame (lines 204-209).        *)
(*                                                                         *)
(* The remote service is the environment: every SESSION.get draws one raw  *)
(* response from Responses (transport error, non-success status, malformed *)
(* body, or a well-formed body with any page of at most PAGE_SIZE records  *)
(* and any total).                                                         *)
(***************************************************************************)
EXTENDS Integers, Sequences, FiniteSets

\* ---------------------------------------------------------------- bounds
\* app.py:108 sets PAGE_SIZE = 200; the model scales the page size down so
\* that pages are short sequences.  Every formula below is stated in terms
\* of PAGE_SIZE, never of its value.
PAGE_SIZE == 2
\* app.py:109
MAX_RETRIES == 3
\* Largest totalNumberOfWinners the service reports (smallest is -1).
MaxTotal == 5
\* Time-to-live of a stored harvest, as the cache contract words it; the
\* source has no such constant.
TTL == 2

\* ----------------------------------------------------------- data values
None == "None"

\* A winner record: the identity projection (date_of_win, prize_amount_usd,
\* name, retailer, retailer_location) is folded into `key`; `game` is a
\* field outside the identity projection.
Records ==
  { [key |-> "k1", game |-> "g1"],
    [key |-> "k1", game |-> "g2"],
    [key |-> "k2", game |-> "g1"] }

RECURSIVE SeqsUpTo(_, _)
SeqsUpTo(S, n) ==
  IF n = 0 THEN { <<>> }
  ELSE LET shorter == SeqsUpTo(S, n - 1)
       IN  shorter \cup { Append(s, x) : s \in shorter, x \in S }

\* The pageOfWinners lists the service may return: at most PAGE_SIZE rows.
Pages == SeqsUpTo(Records, PAGE_SIZE)

\* The totalNumberOfWinners values the service may report.
Totals == (0 - 1) .. MaxTotal

\* The values of the two date inputs.
Dates == {1, 2}

\* JSON bodies: well-formed ones carry both keys, malformed ones lack one.
Bodies ==
  { [pageOfWinners |-> p, totalNumberOfWinners |-> t] : p \in Pages, t \in Totals }
  \cup { [pageOfWinners |-> <<>>] }
  \cup { [totalNumberOfWinners |-> 0] }

\* Raw outcomes of SESSION.get(API_URL, params=p, timeout=30).
Responses ==
  { [transport |-> "error"] }
  \cup { [transport |-> "ok", ok |-> FALSE] }
  \cup { [transport |-> "ok", ok |-> TRUE, json |-> b] : b \in Bodies }

\* The responses to a request for a later page: the script reads only
\* pageOfWinners there, so of the totals it is enough that the service may
\* repeat the first page's total or report a different one.
LaterResponses(tot) ==
  { r \in Responses :
      (r.transport = "ok" /\ r.ok /\ "totalNumberOfWinners" \in DOMAIN r.json
         /\ "pageOfWinners" \in DOMAIN r.json)
        => r.json.totalNumberOfWinners \in {tot, tot - 1} }

\* ------------------------------------------------------- pure functions
Min(a, b) == IF a < b THEN a ELSE b
Max(a, b) == IF a > b THEN a ELSE b

\* fetch_page (app.py:117-128) applied to the raw response of its one GET:
\* either raises (raised = TRUE, err = the kind of failure) or returns data.
fetch_page(resp) ==
  IF resp.transport # "ok"
    THEN [raised |-> TRUE, err |-> "Transport"]
  ELSE IF ~resp.ok
    THEN [raised |-> TRUE, err |-> "HttpStatus"]
  ELSE IF "pageOfWinners" \notin DOMAIN resp.json
          \/ "totalNumberOfWinners" \notin DOMAIN resp.json
    THEN [raised |-> TRUE, err |-> "Malformed"]
  ELSE [raised |-> FALSE, err |-> None, data |-> resp.json]

\* list(range(start, stop, step)) for step > 0, as Python computes it.
RECURSIVE range_inclusive(_, _, _)
range_inclusive(start, stop, step) ==
  IF start > stop THEN <<>>
  ELSE <<start>> \o range_inclusive(start + step, stop, step)

RECURSIVE range(_, _, _)
range(start, stop, step) ==
  IF start >= stop THEN <<>>
  ELSE <<start>> \o range(start + step, stop, step)

\* app.py:199
fetched_so_far_nomin(start, tot) == start + PAGE_SIZE

fetched_so_far(start, tot) == Min(start + PAGE_SIZE, tot)

\* app.py:158
invalid_range_never(dfrom, dto) == FALSE

invalid_range(dfrom, dto) == dto < dfrom

\* app.py:185, the inner loop `for attempt in range(1, MAX_RETRIES + 1)` has
\* run its last iteration.
last_attempt_late(a) == a = MAX_RETRIES + 1

last_attempt(a) == a = MAX_RETRIES

\* ------------------------------------------------------------- state
VARIABLES
  pc,          \* position of the script run
  date_from,   \* sidebar "Date From"
  date_to,     \* sidebar "Date To"
  total,       \* int(first["totalNumberOfWinners"])
  all_rows,    \* rows accumulated so far
  offsets,     \* list(range(PAGE_SIZE, total, PAGE_SIZE))
  i,           \* index in offsets of the loop variable `start`
  attempt,     \* loop variable of the retry loop
  last_err,    \* last_err of the retry loop
  fetchLog,    \* every SESSION.get of this run: offset, outcome, rows returned
  progressLog, \* every progress_bar.progress call of the loop
  errorShown,  \* st.error / uncaught exception shown by this run
  df,          \* the data frame handed to aggregation, display and export
  age,         \* time since the latest run ended, counted up to TTL
  hit          \* at the press of Run: the latest run completed a harvest of
               \* the same query less than TTL ago

vars == <<pc, date_from, date_to, total, all_rows, offsets, i, attempt, last_err,
          fetchLog, progressLog, errorShown, df, age, hit>>

NoError == [kind |-> None, offset |-> 0, err |-> None]
NoResult == [delivered |-> FALSE, rows |-> <<>>]

Terminal == {"done", "stopped_invalid", "stopped_empty", "crashed"}

\* The loop variable of `for start in offsets`.
start == offsets[i]

\* The latest run went through its whole harvest without a failure.
Completed == pc \in {"done", "stopped_empty"} /\ errorShown.kind = None

Init ==
  /\ pc = "idle"
  /\ date_from = 1
  /\ date_to = 1
  /\ total = 0
  /\ all_rows = <<>>
  /\ offsets = <<>>
  /\ i = 0
  /\ attempt = 0
  /\ last_err = None
  /\ fetchLog = <<>>
  /\ progressLog = <<>>
  /\ errorShown = NoError
  /\ df = NoResult
  /\ age = 0
  /\ hit = FALSE

\* ------------------------------------------------------------ actions
\* Time passes after a run has ended.
Tick ==
  /\ pc \in Terminal
  /\ age < TTL
  /\ age' = age + 1
  /\ UNCHANGED <<pc, date_from, date_to, total, all_rows, offsets, i, attempt,
                 last_err, fetchLog, progressLog, errorShown, df, hit>>

\* The user sets the two date inputs and presses Run: the script starts over
\* (every script variable is fresh) and validates the range, app.py:157-171.
Run ==
  /\ pc \in Terminal \cup {"idle"}
  /\ \E dfrom \in Dates, dto \in Dates :
       /\ date_from' = dfrom
       /\ date_to' = dto
       /\ hit' = (Completed /\ date_from = dfrom /\ date_to = dto /\ age < TTL)
       /\ IF invalid_range(dfrom, dto)
            THEN /\ errorShown' = [kind |-> "InvalidQuery", offset |-> 0, err |-> None]
                 /\ pc' = "stopped_invalid"
            ELSE /\ errorShown' = NoError
                 /\ pc' = "first"
  /\ total' = 0
  /\ all_rows' = <<>>
  /\ offsets' = <<>>
  /\ i' = 0
  /\ attempt' = 0
  /\ last_err' = None
  /\ fetchLog' = <<>>
  /\ progressLog' = <<>>
  /\ df' = NoResult
  /\ age' = 0

\* Deduplicator of the design: keep the first row of every identity key.
RECURSIVE dedupe(_)
dedupe(rows) ==
  IF rows = <<>> THEN <<>>
  ELSE LET front == dedupe(SubSeq(rows, 1, Len(rows) - 1))
           r == rows[Len(rows)]
       IN  IF \E k \in DOMAIN front : front[k].key = r.key
             THEN front
             ELSE Append(front, r)

\* A variant of the end of the run that deduplicates the rows first.
BuildFrom_dedupe(rows) ==
  /\ age' = 0
  /\ IF rows = <<>>
       THEN /\ df' = NoResult
            /\ pc' = "stopped_empty"
       ELSE /\ df' = [delivered |-> TRUE, rows |-> dedupe(rows)]
            /\ pc' = "done"

\* app.py:204-209 and what follows: the data frame is built from all_rows
\* ("No deduplication, keep all rows"); an empty one stops the run with a
\* warning, any other is aggregated, displayed and offered for export.
BuildFrom(rows) ==
  /\ age' = 0
  /\ IF rows = <<>>
       THEN /\ df' = NoResult
            /\ pc' = "stopped_empty"
       ELSE /\ df' = [delivered |-> TRUE, rows |-> rows]
            /\ pc' = "done"

\* app.py:173-181: the first page, fetched once, outside any try; then the
\* plan of the remaining offsets.
FetchFirst ==
  /\ pc = "first"
  /\ \E resp \in Responses :
       LET r == fetch_page(resp)
           entry == [offset |-> 0, ok |-> ~r.raised,
                     rows |-> IF r.raised THEN <<>> ELSE r.data.pageOfWinners]
       IN
       /\ fetchLog' = Append(fetchLog, entry)
       /\ IF r.raised
            THEN /\ errorShown' = [kind |-> "Exception", offset |-> 0, err |-> r.err]
                 /\ pc' = "crashed"
                 /\ UNCHANGED <<total, all_rows, offsets, i, attempt, last_err, df, age>>
            ELSE LET tot == r.data.totalNumberOfWinners
                     rows == r.data.pageOfWinners
                     offs == range(PAGE_SIZE, tot, PAGE_SIZE)
                 IN
                 /\ total' = tot
                 /\ all_rows' = rows
                 /\ offsets' = offs
                 /\ errorShown' = errorShown
                 /\ IF offs = <<>>
                      THEN /\ BuildFrom(rows)
                           /\ UNCHANGED <<i, attempt, last_err>>
                      ELSE /\ i' = 1
                           /\ attempt' = 1
                           /\ last_err' = None
                           /\ pc' = "attempt"
                           /\ UNCHANGED <<df, age>>
  /\ UNCHANGED <<date_from, date_to, progressLog, hit>>

\* app.py:185-193: one iteration of the retry loop for offsets[i].
Attempt ==
  /\ pc = "attempt"
  /\ \E resp \in LaterResponses(total) :
       LET r == fetch_page(resp)
           entry == [offset |-> start, ok |-> ~r.raised,
                     rows |-> IF r.raised THEN <<>> ELSE r.data.pageOfWinners]
       IN
       /\ fetchLog' = Append(fetchLog, entry)
       /\ IF r.raised
            THEN /\ last_err' = r.err
                 /\ all_rows' = all_rows
                 /\ IF last_attempt(attempt)
                      THEN /\ pc' = "check"
                           /\ attempt' = attempt
                      ELSE /\ pc' = "attempt"
                           /\ attempt' = attempt + 1
            ELSE /\ all_rows' = all_rows \o r.data.pageOfWinners
                 /\ last_err' = None
                 /\ pc' = "check"
                 /\ attempt' = attempt
  /\ UNCHANGED <<date_from, date_to, total, offsets, i, progressLog, errorShown,
                 df, age, hit>>

\* A variant of the loop tail that goes on to the next offset after a
\* failed one instead of leaving the loop.
Check_continue ==
  /\ pc = "check"
  /\ IF last_err # None
       THEN /\ errorShown' = [kind |-> "Failed", offset |-> start, err |-> last_err]
            /\ progressLog' = progressLog
       ELSE /\ errorShown' = errorShown
            /\ progressLog' = Append(progressLog,
                 [start |-> start, fetched |-> fetched_so_far(start, total),
                  denom |-> Max(total, 1)])
  /\ IF i < Len(offsets)
       THEN /\ i' = i + 1
            /\ attempt' = 1
            /\ last_err' = None
            /\ pc' = "attempt"
            /\ UNCHANGED <<df, age>>
       ELSE /\ BuildFrom(all_rows)
            /\ UNCHANGED <<i, attempt, last_err>>
  /\ UNCHANGED <<date_from, date_to, total, all_rows, offsets, fetchLog, hit>>

\* app.py:195-209: after the retry loop of offsets[i]: on failure report it
\* and leave the loop; otherwise report progress and go on to the next
\* offset; after the loop build the data frame.
Check ==
  /\ pc = "check"
  /\ IF last_err # None
       THEN /\ errorShown' = [kind |-> "Failed", offset |-> start, err |-> last_err]
            /\ progressLog' = progressLog
            /\ BuildFrom(all_rows)
            /\ UNCHANGED <<i, attempt, last_err>>
       ELSE /\ errorShown' = errorShown
            /\ progressLog' = Append(progressLog,
                 [start |-> start, fetched |-> fetched_so_far(start, total),
                  denom |-> Max(total, 1)])
            /\ IF i < Len(offsets)
                 THEN /\ i' = i + 1
                      /\ attempt' = 1
                      /\ last_err' = None
                      /\ pc' = "attempt"
                      /\ UNCHANGED <<df, age>>
                 ELSE /\ BuildFrom(all_rows)
                      /\ UNCHANGED <<i, attempt, last_err>>
  /\ UNCHANGED <<date_from, date_to, total, all_rows, offsets, fetchLog, hit>>

Next == Tick \/ Run \/ FetchFirst \/ Attempt \/ Check

Spec == Init /\ [][Next]_vars

\* ------------------------------------------------- observations of a run
\* The offsets of the plan.
Planned == { offsets[k] : k \in DOMAIN offsets }

\* The requests of this run for offset o, in the order issued.
LogOf(o) ==
  LET ForOffset(e) == e.offset = o
  IN  SelectSeq(fetchLog, ForOffset)

\* The rows of the pages fetched successfully, in the order fetched.
RECURSIVE RowsOf(_)
RowsOf(log) ==
  IF log = <<>> THEN <<>>
  ELSE RowsOf(SubSeq(log, 1, Len(log) - 1)) \o log[Len(log)].rows

\* The plan has been computed in this run.
PlanMade == pc \in {"attempt", "check", "done", "stopped_empty"}

\* The retry loop of offsets[k] has ended.
LoopEnded(k) == k < i \/ (k = i /\ pc \in {"check", "done", "stopped_empty"})

\* Every attempt on o failed and there were MAX_RETRIES of them.
ExhaustedAt(o) ==
  /\ Len(LogOf(o)) = MAX_RETRIES
  /\ \A j \in DOMAIN LogOf(o) : ~LogOf(o)[j].ok

Exhausted == \E o \in Planned : ExhaustedAt(o)

\* What each attempt sequence of the retry loop looks like, for the offsets
\* offsets[k] with k in K whose loop has ended: between 1 and MAX_RETRIES
\* attempts, all but the last failed, the last one either a success or the
\* MAX_RETRIES-th failure, which is then the failure reported.
RetryContract(K) ==
  \A k \in K :
    LET L == LogOf(offsets[k]) IN
    /\ Len(L) >= 1
    /\ Len(L) <= MAX_RETRIES
    /\ \A j \in 1 .. (Len(L) - 1) : ~L[j].ok
    /\ (pc # "check" /\ ~L[Len(L)].ok) =>
         /\ Len(L) = MAX_RETRIES
         /\ errorShown = [kind |-> "Failed", offset |-> offsets[k], err |-> last_err]
         /\ last_err \in {"Transport", "HttpStatus", "Malformed"}

\* ------------------------------------------------------------- claims

\* C1: when some planned offset fails all MAX_RETRIES attempts, the rows
\* collected so far are never delivered as the result set.
C1_NoPartialResult ==
  Exhausted => ~df.delivered

\* C2: offset 0 goes through the retry policy: the run is abandoned for a
\* failure of offset 0 only after MAX_RETRIES failed attempts on it.
C2_FirstPageRetried ==
  (pc = "crashed") => Len(LogOf(0)) = MAX_RETRIES

\* C3: the plan is exactly the multiples k*PAGE_SIZE, k >= 1, below total,
\* in increasing order; with offset 0 it covers every index of [0, total)
\* by exactly one page; it is empty when total <= PAGE_SIZE.
C3_OffsetPlan ==
  PlanMade =>
    /\ \A k \in DOMAIN offsets : offsets[k] = k * PAGE_SIZE /\ offsets[k] < total
    /\ (Len(offsets) + 1) * PAGE_SIZE >= total
    /\ \A idx \in 0 .. (total - 1) :
         Cardinality({ o \in {0} \cup Planned : o <= idx /\ idx < o + PAGE_SIZE }) = 1
    /\ (total <= PAGE_SIZE) => offsets = <<>>

C3_Witness ==
  PlanMade /\ Len(offsets) = 2 /\ total = 2 * PAGE_SIZE + 1

\* C4 as stated: at the end of the harvest every planned offset has had at
\* least 1 and at most MAX_RETRIES attempts, stopped at its first success
\* or declared failed after exactly MAX_RETRIES failures.
C4_EveryPlannedOffsetAttempted ==
  (pc \in {"done", "stopped_empty"}) =>
    /\ \A o \in Planned : Len(LogOf(o)) >= 1
    /\ RetryContract(DOMAIN offsets)

\* C4 amended: the same for every planned offset the loop reaches (no
\* earlier offset exhausted its retries); the offset being retried has had
\* attempt - 1 failures; an offset after an exhausted one has no attempt.
\* The rows kept are those of page 0 and of the successful attempts.
C4_RetryBudget ==
  PlanMade =>
    /\ RetryContract({ k \in DOMAIN offsets : LoopEnded(k) })
    /\ \A k \in DOMAIN offsets :
         /\ (k = i /\ pc = "attempt") =>
              /\ Len(LogOf(offsets[k])) = attempt - 1
              /\ attempt <= MAX_RETRIES
              /\ \A j \in DOMAIN LogOf(offsets[k]) : ~LogOf(offsets[k])[j].ok
         /\ (k > i) => Len(LogOf(offsets[k])) = 0
    /\ all_rows = RowsOf(fetchLog)

C4_Witness ==
  /\ pc = "done"
  /\ Len(offsets) = 2
  /\ Len(LogOf(offsets[1])) = 2
  /\ ExhaustedAt(offsets[2])

C6_CountWithinTotal ==
  df.delivered =>
    /\ Len(df.rows) <= total
    /\ (Len(df.rows) < total) => Len(df.rows) < Len(RowsOf(fetchLog))

\* C7: with date_to earlier than date_from the run stops as an invalid
\* query: no request, no retry, no result.
C7_InvalidQuery ==
  (pc # "idle" /\ date_to < date_from) =>
    /\ pc = "stopped_invalid"
    /\ errorShown.kind = "InvalidQuery"
    /\ fetchLog = <<>>
    /\ attempt = 0
    /\ all_rows = <<>>
    /\ ~df.delivered

C7_Witness ==
  pc = "stopped_invalid" /\ date_to < date_from

\* C8: a run pressed for the query of a harvest completed less than TTL
\* ago issues no network call.
C8_CacheHitNoNetwork ==
  hit => fetchLog = <<>>

\* C9: once a planned offset has exhausted its retries no further request
\* is issued in that run, and the failure shown names that offset and the
\* last error.
C9_Reported ==
  (Exhausted /\ pc # "check") =>
    /\ errorShown.kind = "Failed"
    /\ ExhaustedAt(errorShown.offset)
    /\ errorShown.offset = fetchLog[Len(fetchLog)].offset
    /\ errorShown.err = last_err
    /\ last_err # None

C9_NoFetchAfter ==
  (Exhausted /\ pc' \notin {"first", "stopped_invalid"}) => fetchLog' = fetchLog

C9_AbortStopsFetching ==
  [] C9_Reported /\ [][C9_NoFetchAfter]_vars

C9_Witness ==
  /\ pc = "done"
  /\ Len(offsets) = 2
  /\ ExhaustedAt(offsets[1])
  /\ Len(LogOf(offsets[2])) = 0

\* C10: the count reported after each fetched page is min(start +
\* PAGE_SIZE, total) for strictly increasing offsets, never decreases,
\* never exceeds total, its fraction is within [0, 1], and none is reported
\* for an offset whose retries were exhausted.
C10_Progress ==
  /\ \A k \in DOMAIN progressLog :
       LET e == progressLog[k] IN
       /\ e.fetched = (IF e.start + PAGE_SIZE <= total THEN e.start + PAGE_SIZE ELSE total)
       /\ e.fetched <= total
       /\ 0 <= e.fetched /\ e.fetched <= e.denom /\ e.denom > 0
       /\ e.start \in Planned
       /\ LogOf(e.start)[Len(LogOf(e.start))].ok
       /\ ~ExhaustedAt(e.start)
       /\ (k > 1) => /\ progressLog[k - 1].start < e.start
                     /\ progressLog[k - 1].fetched <= e.fetched
  /\ \A k \in DOMAIN offsets :
       (LoopEnded(k) /\ pc # "check" /\ ~ExhaustedAt(offsets[k])) =>
          \E n \in DOMAIN progressLog : progressLog[n].start = offsets[k]

C10_Witness ==
  /\ Len(progressLog) = 2
  /\ progressLog[2].fetched = total
  /\ progressLog[2].start + PAGE_SIZE > total

====
